---- MODULE Spec2Model ----
(***************************************************************************)
(* A model of the PGE interval-usage ETL job (src/src/*.py).               *)
(*                                                                         *)
(*   Spec           main(): the per-source loop, its except/finally and    *)
(*                  the run summary (main.py)                              *)
(*   SpecExtract    extract(): token, webhook discovery, fetch, parse,     *)
(*                  table construction (extract.py)                        *)
(*   SpecParse      parse_xml() on bounded envelopes (extract.py)          *)
(*   SpecUsagePoint extract_usage_point_id() on bounded links (extract.py) *)
(*   SpecTransform  transform() and _validate_data() (transform.py)        *)
(*   SpecValidate   SourceConfig.validate() (models.py)                    *)
(*                                                                         *)
(* Python's None is the empty sequence and a present value x is <<x>>.     *)
(***************************************************************************)
EXTENDS Integers, Sequences, FiniteSets, TLC

VARIABLES
    \* ---- main() ----
    pc,             \* position of main() in its loop
    idx,            \* index of the source being processed
    clock,          \* the value datetime.now() returns next
    sources,        \* ETLMetrics.sources: source name -> SourceMetrics
    run_end,        \* ETLMetrics.run_end
    rawheight,      \* rawdata.height of the current source
    exc,            \* the exception in flight in main(), or None
    raised,         \* history: source -> the exception a stage raised for it
    called,         \* history: the <<source, stage>> calls that were made
    summaries,      \* history: the run summaries logged
    saved,          \* history: the metrics handed to save_metrics
    \* ---- extract() ----
    epc,            \* position of extract()
    bucket,         \* the objects under the webhook prefix, in listing order
    token,          \* the bearer token held by extract()
    objpos,         \* the generator's position in the listing
    urls,           \* the urls of the current notification still to fetch
    staging,        \* content of data/api_response_<today>.xml
    data_list,      \* the rows accumulated by extract()
    eresult,        \* how extract() ended
    elog,           \* history: token requests, listings and fetches, in order
    \* ---- pure functions ----
    pinput,         \* parse_xml: the envelope
    presult,        \* parse_xml: its result
    uinput,         \* extract_usage_point_id: the entry's links
    uresult,        \* extract_usage_point_id: its result
    tinput,         \* transform: [cfg, rawdata]
    tresult,        \* transform: its result
    vinput,         \* SourceConfig.validate: the config
    vresult         \* SourceConfig.validate: [errors, cfg after]

mainVars == <<pc, idx, clock, sources, run_end, rawheight, exc, raised, called,
              summaries, saved>>
extractVars == <<epc, bucket, token, objpos, urls, staging, data_list, eresult, elog>>
parseVars == <<pinput, presult>>
upVars == <<uinput, uresult>>
transformVars == <<tinput, tresult>>
validateVars == <<vinput, vresult>>
vars == <<mainVars, extractVars, parseVars, upVars, transformVars, validateVars>>

\* Each specification moves its own variables and leaves the others alone.
MainFrame == UNCHANGED <<extractVars, parseVars, upVars, transformVars, validateVars>>
ExtractFrame == UNCHANGED <<mainVars, parseVars, upVars, transformVars, validateVars>>
ParseFrame == UNCHANGED <<mainVars, extractVars, upVars, transformVars, validateVars>>
UsagePointFrame == UNCHANGED <<mainVars, extractVars, parseVars, transformVars, validateVars>>
TransformFrame == UNCHANGED <<mainVars, extractVars, parseVars, upVars, validateVars>>
ValidateFrame == UNCHANGED <<mainVars, extractVars, parseVars, upVars, transformVars>>

None == <<>>
Some(x) == <<x>>

\* ------------------------------------------------------------------ bounds
NumSources == 2
MaxClock == 2
MaxHeight == 2

\* ---------------------------------------------------------------- helpers
RECURSIVE SeqsUpTo(_, _)
SeqsUpTo(S, n) ==
    IF n = 0 THEN {<<>>}
    ELSE LET shorter == SeqsUpTo(S, n - 1)
         IN  shorter \cup {Append(q, x) : q \in {r \in shorter : Len(r) = n - 1}, x \in S}

RECURSIVE SumSeq(_)
SumSeq(q) == IF q = <<>> THEN 0 ELSE Head(q) + SumSeq(Tail(q))

Range(q) == {q[i] : i \in DOMAIN q}

\* ================================================================= main()

\* config.sources: the configured source names, in dict order.
SourceNames == [i \in 1..NumSources |-> i]

\* The exception classes main() can see. transform.py defines its own
\* TransformError class; main() imports TransformError from .exceptions.
ExtractErrorCls == "exceptions.ExtractError"
LoadErrorCls == "exceptions.LoadError"
ExcTransformErrorCls == "exceptions.TransformError"
TransformErrorCls == "transform.TransformError"
KeyErrorCls == "KeyError"

\* except (ExtractError, TransformError, LoadError), names bound by main.py:9.
CaughtClasses == {ExtractErrorCls, ExcTransformErrorCls, LoadErrorCls}

Exception(cls, stage) == [cls |-> cls, msg |-> <<cls, stage>>]

\* ETLMetrics.start_source: a fresh SourceMetrics with source_start = now.
NewSourceMetrics(name, now) ==
    [source_name |-> name, source_start |-> Some(now), source_end |-> None,
     records_extracted |-> 0, records_uploaded |-> 0, status |-> "pending",
     error_msg |-> None]

\* datetime.now(): the clock read, which does not run backwards.
Now(t) == t \in clock..(IF clock < MaxClock THEN clock + 1 ELSE clock)

Cur == SourceNames[idx]

total_extracted(m) ==
    SumSeq([i \in 1..Len(SourceNames) |->
              IF SourceNames[i] \in DOMAIN m THEN m[SourceNames[i]].records_extracted ELSE 0])

total_uploaded(m) ==
    SumSeq([i \in 1..Len(SourceNames) |->
              IF SourceNames[i] \in DOMAIN m THEN m[SourceNames[i]].records_uploaded ELSE 0])

failed_sources(m) == {n \in DOMAIN m : m[n].status = "failed"}

\* How extract() can end, as main() sees it (SpecExtract models the inside).
ExtractReturns == 0..MaxHeight
ExtractRaises == {ExtractErrorCls, KeyErrorCls}

MainInit ==
    /\ pc = "loop"
    /\ idx = 1
    /\ clock = 0
    /\ sources = <<>>
    /\ run_end = None
    /\ rawheight = 0
    /\ exc = None
    /\ raised = <<>>
    /\ called = {}
    /\ summaries = <<>>
    /\ saved = <<>>

\* main.py:35-37: the next source is started.
StartSource ==
    /\ MainFrame
    /\ pc = "loop"
    /\ idx <= Len(SourceNames)
    /\ \E t \in 0..MaxClock :
         /\ Now(t)
         /\ clock' = t
         /\ sources' = [n \in DOMAIN sources \cup {Cur} |->
                          IF n = Cur THEN NewSourceMetrics(Cur, t) ELSE sources[n]]
    /\ pc' = "extract"
    /\ UNCHANGED <<idx, run_end, rawheight, exc, raised, called, summaries, saved>>

\* main.py:39-43: extract() returns a table.
ExtractReturn ==
    /\ MainFrame
    /\ pc = "extract"
    /\ \E h \in ExtractReturns :
         /\ rawheight' = h
         /\ sources' = [sources EXCEPT ![Cur].records_extracted = h]
    /\ called' = called \cup {<<Cur, "extract">>}
    /\ pc' = "check"
    /\ UNCHANGED <<idx, clock, run_end, exc, raised, summaries, saved>>

\* main.py:39-41: extract() raises.
ExtractRaise ==
    /\ MainFrame
    /\ pc = "extract"
    /\ \E c \in ExtractRaises :
         /\ exc' = Some(Exception(c, "extract"))
         /\ raised' = [n \in DOMAIN raised \cup {Cur} |->
                         IF n = Cur THEN Exception(c, "extract") ELSE raised[n]]
    /\ called' = called \cup {<<Cur, "extract">>}
    /\ pc' = "except"
    /\ UNCHANGED <<idx, clock, sources, run_end, rawheight, summaries, saved>>

\* SkipBranch without its continue: a skipped source falls through to transform.
SkipBranchNoContinue ==
    /\ MainFrame
    /\ pc = "check"
    /\ IF sources[Cur].records_extracted = 0
       THEN \E t \in 0..MaxClock :
              /\ Now(t)
              /\ clock' = t
              /\ sources' = [sources EXCEPT ![Cur].status = "skipped",
                                            ![Cur].source_end = Some(t)]
              /\ pc' = "transform"
       ELSE /\ pc' = "transform"
            /\ UNCHANGED <<clock, sources>>
    /\ UNCHANGED <<idx, run_end, rawheight, exc, raised, called, summaries, saved>>

\* main.py:44-47: zero rows: skipped, source_end set, continue (the finally
\* block still runs).
SkipBranch ==
    /\ MainFrame
    /\ pc = "check"
    /\ IF sources[Cur].records_extracted = 0
       THEN \E t \in 0..MaxClock :
              /\ Now(t)
              /\ clock' = t
              /\ sources' = [sources EXCEPT ![Cur].status = "skipped",
                                            ![Cur].source_end = Some(t)]
              /\ pc' = "finally"
       ELSE /\ pc' = "transform"
            /\ UNCHANGED <<clock, sources>>
    /\ UNCHANGED <<idx, run_end, rawheight, exc, raised, called, summaries, saved>>

\* main.py:49: transform() returns processed_data (as many rows as rawdata).
TransformReturn ==
    /\ MainFrame
    /\ pc = "transform"
    /\ called' = called \cup {<<Cur, "transform">>}
    /\ pc' = "load"
    /\ UNCHANGED <<idx, clock, sources, run_end, rawheight, exc, raised, summaries, saved>>

\* main.py:49 with transform.py:38-43: transform() raises the TransformError
\* class that transform.py:8 defines.
TransformRaise ==
    /\ MainFrame
    /\ pc = "transform"
    /\ called' = called \cup {<<Cur, "transform">>}
    /\ exc' = Some(Exception(TransformErrorCls, "transform"))
    /\ raised' = [n \in DOMAIN raised \cup {Cur} |->
                    IF n = Cur THEN Exception(TransformErrorCls, "transform") ELSE raised[n]]
    /\ pc' = "except"
    /\ UNCHANGED <<idx, clock, sources, run_end, rawheight, summaries, saved>>

\* main.py:51-56: bulk_load_data returns.
LoadReturn ==
    /\ MainFrame
    /\ pc = "load"
    /\ called' = called \cup {<<Cur, "load">>}
    /\ pc' = "success"
    /\ UNCHANGED <<idx, clock, sources, run_end, rawheight, exc, raised, summaries, saved>>

\* main.py:51-56: bulk_load_data raises LoadError.
LoadRaise ==
    /\ MainFrame
    /\ pc = "load"
    /\ called' = called \cup {<<Cur, "load">>}
    /\ exc' = Some(Exception(LoadErrorCls, "load"))
    /\ raised' = [n \in DOMAIN raised \cup {Cur} |->
                    IF n = Cur THEN Exception(LoadErrorCls, "load") ELSE raised[n]]
    /\ pc' = "except"
    /\ UNCHANGED <<idx, clock, sources, run_end, rawheight, summaries, saved>>

\* main.py:58-59.
MarkSuccess ==
    /\ MainFrame
    /\ pc = "success"
    /\ sources' = [sources EXCEPT ![Cur].status = "success",
                                  ![Cur].records_uploaded = rawheight]
    /\ pc' = "finally"
    /\ UNCHANGED <<idx, clock, run_end, rawheight, exc, raised, called, summaries, saved>>

\* main.py:60-63: the except clause handles the exception when its class is
\* one of the three named; any other exception stays in flight.
ExceptClause ==
    /\ MainFrame
    /\ pc = "except"
    /\ IF exc[1].cls \in CaughtClasses
       THEN /\ sources' = [sources EXCEPT ![Cur].status = "failed",
                                          ![Cur].error_msg = Some(exc[1].msg)]
            /\ exc' = None
       ELSE UNCHANGED <<sources, exc>>
    /\ pc' = "finally"
    /\ UNCHANGED <<idx, clock, run_end, rawheight, raised, called, summaries, saved>>

\* FinallyBlock without the assignment to source_end.
FinallyNoEnd ==
    /\ MainFrame
    /\ pc = "finally"
    /\ UNCHANGED <<clock, sources>>
    /\ IF exc = None
       THEN /\ idx' = idx + 1
            /\ pc' = "loop"
       ELSE /\ pc' = "aborted"
            /\ UNCHANGED idx
    /\ UNCHANGED <<run_end, rawheight, exc, raised, called, summaries, saved>>

\* main.py:64-65: finally sets source_end; then the loop goes on, or the
\* exception still in flight leaves main().
FinallyBlock ==
    /\ MainFrame
    /\ pc = "finally"
    /\ \E t \in 0..MaxClock :
         /\ Now(t)
         /\ clock' = t
         /\ sources' = [sources EXCEPT ![Cur].source_end = Some(t)]
    /\ IF exc = None
       THEN /\ idx' = idx + 1
            /\ pc' = "loop"
       ELSE /\ pc' = "aborted"
            /\ UNCHANGED idx
    /\ UNCHANGED <<run_end, rawheight, exc, raised, called, summaries, saved>>

\* main.py:66-71: after the loop, run_end is set and the summary is logged.
Summary ==
    /\ MainFrame
    /\ pc = "loop"
    /\ idx > Len(SourceNames)
    /\ \E t \in 0..MaxClock :
         /\ Now(t)
         /\ clock' = t
         /\ run_end' = Some(t)
    /\ summaries' = Append(summaries,
                           [uploaded |-> total_uploaded(sources),
                            extracted |-> total_extracted(sources),
                            failed |-> failed_sources(sources),
                            statuses |-> [n \in DOMAIN sources |-> sources[n].status]])
    /\ pc' = "save"
    /\ UNCHANGED <<idx, sources, rawheight, exc, raised, called, saved>>

\* main.py:72-73: the metrics are handed to save_metrics.
SaveMetrics ==
    /\ MainFrame
    /\ pc = "save"
    /\ saved' = Append(saved, sources)
    /\ pc' = "done"
    /\ UNCHANGED <<idx, clock, sources, run_end, rawheight, exc, raised, called, summaries>>

MainNext ==
    \/ StartSource
    \/ ExtractReturn
    \/ ExtractRaise
    \/ SkipBranch
    \/ TransformReturn
    \/ TransformRaise
    \/ LoadReturn
    \/ LoadRaise
    \/ MarkSuccess
    \/ ExceptClause
    \/ FinallyBlock
    \/ Summary
    \/ SaveMetrics

\* ============================================================ parse_xml()

\* An href is a sequence of characters; "/" is the separator, and the other
\* members are slash-free pieces of text ("UsagePoint" is the literal token).
Chars == {"/", "UsagePoint", "42"}

\* str.split("/"): the segments between the separators (at least one).
RECURSIVE Split(_)
Split(s) ==
    IF \A i \in DOMAIN s : s[i] # "/" THEN <<s>>
    ELSE LET k == CHOOSE i \in DOMAIN s : s[i] = "/" /\ \A j \in 1..(i - 1) : s[j] # "/"
         IN  <<SubSeq(s, 1, k - 1)>> \o Split(SubSeq(s, k + 1, Len(s)))

\* list.index(x): the first position of x, 0 when absent (ValueError).
IndexOf(q, x) ==
    IF \E i \in DOMAIN q : q[i] = x
    THEN CHOOSE i \in DOMAIN q : q[i] = x /\ \A j \in 1..(i - 1) : q[j] # x
    ELSE 0

Returned(v) == [ok |-> TRUE, value |-> v]
Raised(cls) == [ok |-> FALSE, cls |-> cls]

\* extract.py:162-168. The first link with rel = "up" decides: its href is
\* split and the segment after "UsagePoint" is returned; without such a link
\* the function falls off its end and returns None.
RECURSIVE extract_usage_point_id(_)
extract_usage_point_id(links) ==
    IF links = <<>> THEN Returned(None)
    ELSE LET link == Head(links) IN
         IF link.rel = "up"
         THEN IF link.href = None THEN Raised("AttributeError")
              ELSE LET ref_split == Split(link.href[1])
                       i == IndexOf(ref_split, <<"UsagePoint">>)
                   IN  IF i = 0 THEN Raised("ValueError")
                       ELSE IF i + 1 > Len(ref_split) THEN Raised("IndexError")
                       ELSE Returned(Some(ref_split[i + 1]))
         ELSE extract_usage_point_id(Tail(links))

\* extract.py:143-157: the row of one IntervalReading.
ReadingRow(usage_point_id, reading) ==
    [usage_point |-> usage_point_id,
     reading_quality |-> reading.quality,
     duration |-> reading.duration,
     start |-> reading.start,
     value |-> reading.value,
     tou |-> reading.tou,
     unit |-> "kWh"]

\* extract.py:136-158, one iteration of the loop over the entries: content is
\* looked up, then its first IntervalBlock, then the usage point, then one row
\* per IntervalReading of that block.
ParseEntry(child) ==
    IF child.content = None THEN Raised("AttributeError")
    ELSE LET blocks == child.content[1] IN
         IF blocks = <<>> THEN Returned(<<>>)
         ELSE LET usage_point_id == extract_usage_point_id(child.links)
                  data == Head(blocks)
              IN  IF ~usage_point_id.ok THEN usage_point_id
                  ELSE Returned([i \in 1..Len(data) |->
                                   ReadingRow(usage_point_id.value, data[i])])

RECURSIVE ParseEntries(_, _)
ParseEntries(entries, data_list_) ==
    IF entries = <<>> THEN Returned(data_list_)
    ELSE LET r == ParseEntry(Head(entries)) IN
         IF ~r.ok THEN r
         ELSE ParseEntries(Tail(entries), data_list_ \o r.value)

\* extract.py:127-159.
parse_xml(xml_file) ==
    IF ~xml_file.wellformed THEN Raised("ParseError")
    ELSE ParseEntries(xml_file.entries, <<>>)

Link(rel, href) == [rel |-> rel, href |-> href]
Reading(q, d, s, v, t) == [quality |-> q, duration |-> d, start |-> s, value |-> v, tou |-> t]
Entry(links, content) == [links |-> links, content |-> content]
Envelope(entries) == [wellformed |-> TRUE, entries |-> entries]
Malformed == [wellformed |-> FALSE, entries |-> <<>>]

\* ============================================================== extract()
MaxObjects == 2
MaxUrls == 2

\* The data-file URLs a notification can name.
URLs == {1, 2}

\* What the usage-data endpoint serves at a URL: an envelope of one entry for
\* usage point "42" (URL 1) or "4242" (URL 2) with as many readings as the URL
\* number; or an envelope whose entry has no content; or unparsable text.
GoodPayload(u) ==
    Envelope(<<Entry(<<Link("self", Some(<<"42">>)),
                       Link("up", Some(<<"UsagePoint", "/">> \o [i \in 1..u |-> "42"]))>>,
                     Some(<<[i \in 1..u |->
                              Reading(None, Some("900"), Some(i), Some(u), None)]>>))>>)
NoContentPayload == Envelope(<<Entry(<<>>, None)>>)
Served(u) == {GoodPayload(u), NoContentPayload, Malformed}

\* The objects under the webhook prefix: a directory marker (key ends in "/"),
\* or a notification whose body is not JSON, has no "urls" field, or names urls.
DirMarker == [is_dir |-> TRUE, json |-> FALSE, urls |-> None]
Notification(json, u) == [is_dir |-> FALSE, json |-> json, urls |-> u]
Objects ==
    {DirMarker, Notification(FALSE, None), Notification(TRUE, None)}
    \cup {Notification(TRUE, Some(q)) : q \in SeqsUpTo(URLs, MaxUrls)}
Buckets == SeqsUpTo(Objects, MaxObjects)

\* The token endpoint's answers (extract.py:86-102).
TokenResponses == {"token", "error", "timeout", "failed", "malformed", "keyless"}

\* extract.py:79-102: what get_access_token does with each answer. An "error"
\* field, a timeout and a failed or undecodable response raise ExtractError;
\* data["client_access_token"] on a response without that key raises KeyError.
get_access_token(response) ==
    CASE response = "token" -> Returned("bearer")
      [] response = "keyless" -> Raised(KeyErrorCls)
      [] OTHER -> Raised(ExtractErrorCls)

\* extract.py:61-62: inside the try block every exception becomes ExtractError.
Wrapped(cls) == Raised(ExtractErrorCls)

\* extract.py:65-76: the first object at or after p that is no directory
\* marker; 0 when the listing is exhausted.
NextObject(p) ==
    IF \E k \in p..Len(bucket) : ~bucket[k].is_dir
    THEN CHOOSE k \in p..Len(bucket) :
           ~bucket[k].is_dir /\ \A j \in p..(k - 1) : bucket[j].is_dir
    ELSE 0

\* After a url is done: the next url of the notification, or the generator.
AfterUrl(rest) == IF rest = <<>> THEN "discover" ELSE "fetch"

ExtractIdle ==
    /\ epc = "idle"
    /\ bucket = <<>>
    /\ token = None
    /\ objpos = 1
    /\ urls = <<>>
    /\ staging = None
    /\ data_list = <<>>
    /\ eresult = None
    /\ elog = <<>>

ExtractInit ==
    /\ epc = "token"
    /\ bucket \in Buckets
    /\ token = None
    /\ objpos = 1
    /\ urls = <<>>
    /\ staging = None
    /\ data_list = <<>>
    /\ eresult = None
    /\ elog = <<>>

\* extract.py:50-53: session, schema, token. This call is outside the try
\* block, so what get_access_token raises leaves extract() as it is.
AcquireToken ==
    /\ ExtractFrame
    /\ epc = "token"
    /\ \E response \in TokenResponses :
         LET r == get_access_token(response) IN
         IF r.ok
         THEN /\ token' = Some(r.value)
              /\ epc' = "discover"
              /\ UNCHANGED eresult
         ELSE /\ eresult' = Some(r)
              /\ epc' = "done"
              /\ UNCHANGED token
    /\ elog' = Append(elog, <<"token">>)
    /\ UNCHANGED <<bucket, objpos, urls, staging, data_list>>

\* extract.py:55 with 65-76: the generator is advanced to its next yield.
NextWebhook ==
    /\ ExtractFrame
    /\ epc = "discover"
    /\ LET k == NextObject(objpos) IN
       IF k = 0
       THEN /\ epc' = "build"
            /\ UNCHANGED <<objpos, urls, eresult, elog>>
       ELSE /\ objpos' = k + 1
            /\ elog' = Append(elog, <<"list", k>>)
            /\ IF ~bucket[k].json
               THEN /\ eresult' = Some(Wrapped("JSONDecodeError"))
                    /\ epc' = "done"
                    /\ UNCHANGED urls
               ELSE IF bucket[k].urls = None
               THEN /\ eresult' = Some(Wrapped("TypeError"))
                    /\ epc' = "done"
                    /\ UNCHANGED urls
               ELSE /\ urls' = bucket[k].urls[1]
                    /\ epc' = AfterUrl(urls')
                    /\ UNCHANGED eresult
    /\ UNCHANGED <<bucket, token, staging, data_list>>

\* GetData fetching all the urls of a notification before any is parsed.
GetDataBatch ==
    /\ ExtractFrame
    /\ epc = "fetch"
    /\ \E payload \in Served(Head(urls)) :
         /\ staging' = Some(payload)
         /\ elog' = Append(elog, <<"fetch", Head(urls), payload>>)
    /\ urls' = Tail(urls)
    /\ epc' = IF urls' = <<>> THEN "parse" ELSE "fetch"
    /\ UNCHANGED <<bucket, token, objpos, data_list, eresult>>

\* extract.py:57 with 105-120: the GET succeeds and its body is written to the
\* staging file (mode "w": the previous content is gone).
GetData ==
    /\ ExtractFrame
    /\ epc = "fetch"
    /\ \E payload \in Served(Head(urls)) :
         /\ staging' = Some(payload)
         /\ elog' = Append(elog, <<"fetch", Head(urls), payload>>)
    /\ urls' = Tail(urls)
    /\ epc' = "parse"
    /\ UNCHANGED <<bucket, token, objpos, data_list, eresult>>

\* extract.py:57 with 121-124: the GET times out or fails after its retries.
GetDataRaise ==
    /\ ExtractFrame
    /\ epc = "fetch"
    /\ eresult' = Some(Wrapped(ExtractErrorCls))
    /\ epc' = "done"
    /\ UNCHANGED <<bucket, token, objpos, urls, staging, data_list, elog>>

\* extract.py:58: the staging file is parsed and its rows are accumulated.
ParseStaged ==
    /\ ExtractFrame
    /\ epc = "parse"
    /\ LET r == parse_xml(staging[1]) IN
       IF r.ok
       THEN /\ data_list' = data_list \o r.value
            /\ epc' = AfterUrl(urls)
            /\ UNCHANGED eresult
       ELSE /\ eresult' = Some(Wrapped(r.cls))
            /\ epc' = "done"
            /\ UNCHANGED data_list
    /\ UNCHANGED <<bucket, token, objpos, urls, staging, elog>>

\* extract.py:59-60: the table is built from the accumulated rows.
BuildTable ==
    /\ ExtractFrame
    /\ epc = "build"
    /\ eresult' = Some(Returned([height |-> Len(data_list), rows |-> data_list]))
    /\ epc' = "done"
    /\ UNCHANGED <<bucket, token, objpos, urls, staging, data_list, elog>>

\* extract.py:59: polars rejects rows that do not fit the schema.
BuildTableRaise ==
    /\ ExtractFrame
    /\ epc = "build"
    /\ data_list # <<>>
    /\ eresult' = Some(Wrapped("polars error"))
    /\ epc' = "done"
    /\ UNCHANGED <<bucket, token, objpos, urls, staging, data_list, elog>>

ExtractNext ==
    \/ AcquireToken
    \/ NextWebhook
    \/ GetData
    \/ GetDataRaise
    \/ ParseStaged
    \/ BuildTable
    \/ BuildTableRaise

\* ====================================== parse_xml() on bounded envelopes
MaxEntries == 2
MaxReadings == 2

ReadingSet ==
    {Reading(Some("0"), Some("900"), Some("1700000000"), Some("5"), Some("1")),
     Reading(None, Some("900"), Some("1700000000"), Some("7"), None),
     Reading(None, None, None, None, None)}

\* ".../UsagePoint/42/...", "self" before "up", an "up" href without the token.
LinkSeqSet ==
    {<<>>,
     <<Link("up", Some(<<"42", "/", "UsagePoint", "/", "42", "/", "42">>))>>,
     <<Link("self", Some(<<"42">>)), Link("up", Some(<<"UsagePoint", "/", "42", "42">>))>>,
     <<Link("up", Some(<<"42", "/", "42">>))>>}

\* An entry's content: absent, without IntervalBlock, or with one or two.
ContentSet ==
    {None, Some(<<>>)}
    \cup {Some(<<b>>) : b \in SeqsUpTo(ReadingSet, MaxReadings)}
    \cup {Some(<<b, <<Reading(None, None, None, None, None)>>>>) :
            b \in SeqsUpTo(ReadingSet, 1)}

EntrySet == {Entry(l, c) : l \in LinkSeqSet, c \in ContentSet}

ParseIdle ==
    /\ pinput = None
    /\ presult = None

ParseInit ==
    /\ pinput \in {Some(Malformed)} \cup {Some(Envelope(q)) : q \in SeqsUpTo(EntrySet, MaxEntries)}
    /\ presult = None

ParseXml ==
    /\ ParseFrame
    /\ pinput # None
    /\ presult = None
    /\ presult' = Some(parse_xml(pinput[1]))
    /\ UNCHANGED pinput

\* ======================== extract_usage_point_id() on bounded link lists
MaxLinks == 2
MaxHrefLen == 3

LinkSet ==
    {Link(rel, href) : rel \in {"up", "self"},
                       href \in {None} \cup {Some(h) : h \in SeqsUpTo(Chars, MaxHrefLen)}}

UsagePointIdle ==
    /\ uinput = None
    /\ uresult = None

UsagePointInit ==
    /\ uinput \in {Some(q) : q \in SeqsUpTo(LinkSet, MaxLinks)}
    /\ uresult = None

ExtractUsagePointId ==
    /\ UsagePointFrame
    /\ uinput # None
    /\ uresult = None
    /\ uresult' = Some(extract_usage_point_id(uinput[1]))
    /\ UNCHANGED uinput

\* ====================================================== SourceConfig (models.py)
MaxSchemaLen == 2
MaxKeys == 2
MaxRows == 2

JsonNames == {"start", "value"}
DbNames == {"reading_ts", "value"}

FieldMapping(json_field, db_field) == [json_field |-> json_field, db_field |-> db_field]
FieldMappings == {FieldMapping(j, d) : j \in JsonNames, d \in DbNames}
Schemas == SeqsUpTo(FieldMappings, MaxSchemaLen)

\* models.py:84-85.
db_columns(cfg) == [i \in 1..Len(cfg.schema) |-> cfg.schema[i].db_field]

\* A dict built by a comprehension over the schema: its keys in insertion
\* order (a repeated key keeps its first place) ...
RECURSIVE DictKeys(_, _)
DictKeys(schema, seen) ==
    IF schema = <<>> THEN <<>>
    ELSE IF Head(schema).json_field \in seen THEN DictKeys(Tail(schema), seen)
    ELSE <<Head(schema).json_field>>
         \o DictKeys(Tail(schema), seen \cup {Head(schema).json_field})

\* ... and its values (a repeated key takes its last value). models.py:87-88.
column_mapping(cfg) ==
    [j \in {cfg.schema[i].json_field : i \in DOMAIN cfg.schema} |->
       LET last == CHOOSE i \in DOMAIN cfg.schema :
                     /\ cfg.schema[i].json_field = j
                     /\ \A k \in DOMAIN cfg.schema :
                          cfg.schema[k].json_field = j => k <= i
       IN  cfg.schema[last].db_field]

\* models.py:81-82 with extract.py:30-46: the columns of the typed schema.
field_schema_keys(cfg) == DictKeys(cfg.schema, {})

ErrorMsg(kind, col) == [kind |-> kind, col |-> col]

\* models.py:99-101 and 102-104: one loop of validate.
RECURSIVE CheckCols(_, _, _)
CheckCols(cols, db_cols, kind) ==
    IF cols = <<>> THEN <<>>
    ELSE (IF Head(cols) \notin Range(db_cols) THEN <<ErrorMsg(kind, Head(cols))>> ELSE <<>>)
         \o CheckCols(Tail(cols), db_cols, kind)

\* validate without its second loop.
validate_pk_only(cfg) ==
    CheckCols(cfg.prim_key, db_columns(cfg), "primary key col")

\* models.py:96-106.
validate(cfg) ==
    CheckCols(cfg.prim_key, db_columns(cfg), "primary key col")
    \o CheckCols(cfg.update_cols, db_columns(cfg), "update col")

KeyNames == DbNames \cup {"start"}

ValidateIdle ==
    /\ vinput = None
    /\ vresult = None

ValidateInit ==
    /\ vinput \in {Some([name |-> "usage", prim_key |-> pk, update_cols |-> uc, schema |-> sc]) :
                     pk \in SeqsUpTo(KeyNames, MaxKeys),
                     uc \in SeqsUpTo(KeyNames, MaxKeys),
                     sc \in Schemas}
    /\ vresult = None

\* models.py:96-106: validate builds and returns the list; it assigns to no
\* field of the config.
Validate ==
    /\ ValidateFrame
    /\ vinput # None
    /\ vresult = None
    /\ vresult' = Some([errors |-> validate(vinput[1]), cfg |-> vinput[1]])
    /\ UNCHANGED vinput

\* ============================================================ transform()

\* ---- epoch seconds to America/Los_Angeles civil time (rules since 2007) ----
CivilFromDays(z0) ==
    LET z == z0 + 719468
        era == z \div 146097
        doe == z - era * 146097
        yoe == (doe - doe \div 1460 + doe \div 36524 - doe \div 146096) \div 365
        doy == doe - (365 * yoe + yoe \div 4 - yoe \div 100)
        mp == (5 * doy + 2) \div 153
        d == doy - (153 * mp + 2) \div 5 + 1
        m == IF mp < 10 THEN mp + 3 ELSE mp - 9
    IN  [year |-> yoe + era * 400 + (IF m <= 2 THEN 1 ELSE 0), month |-> m, day |-> d]

DaysFromCivil(y0, m, d) ==
    LET y == IF m <= 2 THEN y0 - 1 ELSE y0
        era == y \div 400
        yoe == y - era * 400
        doy == (153 * (IF m > 2 THEN m - 3 ELSE m + 9) + 2) \div 5 + d - 1
        doe == yoe * 365 + yoe \div 4 - yoe \div 100 + doy
    IN  era * 146097 + doe - 719468

\* Day number of the n-th Sunday of a month (1970-01-01 was a Thursday).
NthSunday(y, m, n) ==
    LET first == DaysFromCivil(y, m, 1)
        weekday == (first + 4) % 7
    IN  first + ((7 - weekday) % 7) + 7 * (n - 1)

\* Daylight time runs from 02:00 PST on the second Sunday of March to 02:00 PDT
\* on the first Sunday of November.
UtcOffset(e) ==
    LET y == CivilFromDays(e \div 86400).year
        dst_start == NthSunday(y, 3, 2) * 86400 + 10 * 3600
        dst_end == NthSunday(y, 11, 1) * 86400 + 9 * 3600
    IN  IF dst_start <= e /\ e < dst_end THEN -7 * 3600 ELSE -8 * 3600

\* from_epoch(..., "s").dt.convert_time_zone("America/Los_Angeles")
\*   .dt.strftime("%Y-%m-%d %H:%M:%S"), the fields of the text.
FormatLA(e) ==
    LET local == e + UtcOffset(e)
        date == CivilFromDays(local \div 86400)
        sod == local % 86400
    IN  [year |-> date.year, month |-> date.month, day |-> date.day,
         hour |-> sod \div 3600, minute |-> (sod % 3600) \div 60, second |-> sod % 60]

\* ---- tables: columns by name, each row a tuple of cells (None is null) ----
Text(n) == [numeric |-> TRUE, n |-> n]
NotNumeric == [numeric |-> FALSE, n |-> 0]

ColIndex(table, col) == IndexOf(table.columns, col)
NoDuplicates(q) == \A i, j \in DOMAIN q : q[i] = q[j] => i = j

\* transform.py:24-28: the "start" column is replaced by its formatted local
\* time; a null stays null; a missing column or a cell that is no number fails.
with_epoch_column(rawdata) ==
    LET k == ColIndex(rawdata, "start") IN
    IF k = 0 THEN Raised("ColumnNotFoundError")
    ELSE IF \E r \in DOMAIN rawdata.rows :
              rawdata.rows[r][k] # None /\ ~rawdata.rows[r][k][1].numeric
    THEN Raised("ComputeError")
    ELSE Returned([columns |-> rawdata.columns,
                   rows |-> [r \in DOMAIN rawdata.rows |->
                               [c \in DOMAIN rawdata.columns |->
                                  IF c = k /\ rawdata.rows[r][c] # None
                                  THEN Some(FormatLA(rawdata.rows[r][c][1].n))
                                  ELSE rawdata.rows[r][c]]]])

\* transform.py:29: DataFrame.rename with the json_field -> db_field dict.
rename(table, mapping) ==
    LET renamed == [c \in DOMAIN table.columns |->
                      IF table.columns[c] \in DOMAIN mapping
                      THEN mapping[table.columns[c]] ELSE table.columns[c]]
    IN  IF \E j \in DOMAIN mapping : j \notin Range(table.columns)
        THEN Raised("ColumnNotFoundError")
        ELSE IF ~NoDuplicates(renamed) THEN Raised("DuplicateError")
        ELSE Returned([columns |-> renamed, rows |-> table.rows])

\* transform.py:29-31: DataFrame.select with the db_field list.
select(table, cols) ==
    IF \E i \in DOMAIN cols : cols[i] \notin Range(table.columns)
    THEN Raised("ColumnNotFoundError")
    ELSE IF ~NoDuplicates(cols) THEN Raised("DuplicateError")
    ELSE Returned([columns |-> cols,
                   rows |-> [r \in DOMAIN table.rows |->
                               [c \in DOMAIN cols |->
                                  table.rows[r][ColIndex(table, cols[c])]]]])

null_count(data, col) ==
    Cardinality({r \in DOMAIN data.rows : data.rows[r][ColIndex(data, col)] = None})

\* transform.py:46-51.
RECURSIVE validate_data_cols(_, _)
validate_data_cols(data, cols) ==
    IF cols = <<>> THEN Returned(None)
    ELSE LET col == Head(cols) IN
         IF col = "" THEN validate_data_cols(data, Tail(cols))
         ELSE IF ColIndex(data, col) = 0 THEN Raised("ColumnNotFoundError")
         ELSE IF null_count(data, col) > 0 THEN Raised(TransformErrorCls)
         ELSE validate_data_cols(data, Tail(cols))

\* _validate_data returning after the first primary-key column.
validate_data_first_only(data, cfg) ==
    validate_data_cols(data, IF cfg.prim_key = <<>> THEN <<>> ELSE <<Head(cfg.prim_key)>>)

\* transform.py:46-51.
validate_data(data, cfg) == validate_data_cols(data, cfg.prim_key)

\* transform.py:23-43: every exception raised inside the try block leaves
\* transform() as the TransformError of transform.py:8.
transform(rawdata, cfg) ==
    LET converted == with_epoch_column(rawdata) IN
    IF ~converted.ok THEN Raised(TransformErrorCls)
    ELSE LET renamed == rename(converted.value, column_mapping(cfg)) IN
    IF ~renamed.ok THEN Raised(TransformErrorCls)
    ELSE LET result == select(renamed.value, db_columns(cfg)) IN
    IF ~result.ok THEN Raised(TransformErrorCls)
    ELSE LET checked == validate_data(result.value, cfg) IN
    IF ~checked.ok THEN Raised(TransformErrorCls)
    ELSE Returned(result.value)

\* The cells a column of the ingested table can hold.
CellsOf(col) ==
    IF col = "start"
    THEN {None, Some(Text(1700000000)), Some(Text(1690000000)), Some(NotNumeric)}
    ELSE {None, Some(Text(5))}

RowsOf(columns) ==
    {row \in [DOMAIN columns -> UNION {CellsOf(columns[c]) : c \in DOMAIN columns}] :
       \A c \in DOMAIN columns : row[c] \in CellsOf(columns[c])}

\* extract.py:59: the ingested table has the columns of the typed schema.
RawTables(cfg) ==
    {[columns |-> field_schema_keys(cfg), rows |-> rows] :
       rows \in SeqsUpTo(RowsOf(field_schema_keys(cfg)), MaxRows)}

\* config.py:37-40: a config reaches the run only when validate() found nothing.
TransformConfigs ==
    {cfg \in {[name |-> "usage", prim_key |-> pk, update_cols |-> <<>>, schema |-> sc] :
                pk \in SeqsUpTo(DbNames, MaxKeys), sc \in Schemas} :
       validate(cfg) = <<>>}

TransformIdle ==
    /\ tinput = None
    /\ tresult = None

TransformInit ==
    /\ \E cfg \in TransformConfigs :
         \E raw \in RawTables(cfg) :
           tinput = Some([cfg |-> cfg, rawdata |-> raw])
    /\ tresult = None

Transform ==
    /\ TransformFrame
    /\ tinput # None
    /\ tresult = None
    /\ tresult' = Some(transform(tinput[1].rawdata, tinput[1].cfg))
    /\ UNCHANGED tinput

\* ========================================================= specifications
MainIdle ==
    /\ pc = "idle"
    /\ idx = 1
    /\ clock = 0
    /\ sources = <<>>
    /\ run_end = None
    /\ rawheight = 0
    /\ exc = None
    /\ raised = <<>>
    /\ called = {}
    /\ summaries = <<>>
    /\ saved = <<>>

Init == MainInit /\ ExtractIdle /\ ParseIdle /\ UsagePointIdle /\ TransformIdle /\ ValidateIdle
Next == MainNext
Spec == Init /\ [][Next]_vars

InitExtract == MainIdle /\ ExtractInit /\ ParseIdle /\ UsagePointIdle /\ TransformIdle /\ ValidateIdle
NextExtract == ExtractNext
SpecExtract == InitExtract /\ [][NextExtract]_vars

InitParse == MainIdle /\ ExtractIdle /\ ParseInit /\ UsagePointIdle /\ TransformIdle /\ ValidateIdle
NextParse == ParseXml
SpecParse == InitParse /\ [][NextParse]_vars

InitUsagePoint == MainIdle /\ ExtractIdle /\ ParseIdle /\ UsagePointInit /\ TransformIdle /\ ValidateIdle
NextUsagePoint == ExtractUsagePointId
SpecUsagePoint == InitUsagePoint /\ [][NextUsagePoint]_vars

InitTransform == MainIdle /\ ExtractIdle /\ ParseIdle /\ UsagePointIdle /\ TransformInit /\ ValidateIdle
NextTransform == Transform
SpecTransform == InitTransform /\ [][NextTransform]_vars

InitValidate == MainIdle /\ ExtractIdle /\ ParseIdle /\ UsagePointIdle /\ TransformIdle /\ ValidateInit
NextValidate == Validate
SpecValidate == InitValidate /\ [][NextValidate]_vars

\* ================================================================= claims

\* Control has left the processing of the i-th source: the loop moved on, or
\* an exception took the run out of main().
Left(i) == i < idx \/ (i = idx /\ pc = "aborted")

StageErrors == {ExtractErrorCls, TransformErrorCls, ExcTransformErrorCls, LoadErrorCls}
FinalStatuses == {"skipped", "success", "failed"}

\* C1: when extract, transform or the loader fails for a source with its
\* ExtractError / TransformError / LoadError, the source ends 'failed' with the
\* error text as error_msg, and that failure does not take the run out of the
\* loop.
C1_FailureIsolation ==
    \A i \in 1..NumSources :
      LET n == SourceNames[i] IN
      (n \in DOMAIN raised /\ raised[n].cls \in StageErrors /\ Left(i))
        => /\ ~(i = idx /\ pc = "aborted")
           /\ sources[n].status = "failed"
           /\ sources[n].error_msg = Some(raised[n].msg)

\* C2: once control has left a started source's processing, on whichever path
\* (success, skip, caught error, other exception), its source_end is set and
\* is not earlier than its source_start.
C2_SourceEndAlwaysSet ==
    \A i \in 1..NumSources :
      LET n == SourceNames[i] IN
      (n \in DOMAIN sources /\ Left(i))
        => /\ sources[n].source_end # None
           /\ sources[n].source_end[1] >= sources[n].source_start[1]

C2_Witness ==
    /\ pc = "aborted"
    /\ idx = 2
    /\ sources[SourceNames[1]].status = "skipped"
    /\ sources[SourceNames[2]].status = "pending"
    /\ sources[SourceNames[2]].source_end # None
    /\ sources[SourceNames[2]].source_end[1] > sources[SourceNames[2]].source_start[1]

\* extract() returned a table without rows for source n.
ZeroRows(n) ==
    /\ n \in DOMAIN sources
    /\ <<n, "extract">> \in called
    /\ n \notin DOMAIN raised
    /\ sources[n].records_extracted = 0

\* C3: a source whose extraction returned zero rows never has transform or the
\* loader called for it and, from the zero-row check on and for the rest of
\* the run, is 'skipped' with no rows extracted or uploaded and no error_msg.
C3_ZeroRowsSkipped ==
    \A i \in 1..NumSources :
      LET n == SourceNames[i] IN
      ZeroRows(n)
        => /\ <<n, "transform">> \notin called
           /\ <<n, "load">> \notin called
           /\ ~(i = idx /\ pc = "check")
                => /\ sources[n].status = "skipped"
                   /\ sources[n].records_extracted = 0
                   /\ sources[n].records_uploaded = 0
                   /\ sources[n].error_msg = None

C3_Witness ==
    /\ pc = "done"
    /\ ZeroRows(SourceNames[1])
    /\ sources[SourceNames[1]].status = "skipped"
    /\ sources[SourceNames[2]].status = "success"

\* C4: every run ends with the summary logged and the metrics saved exactly
\* once, at a point where every configured source has a final status, and the
\* summary's failed list is the set of sources a stage failed for.
C4_SummaryExactlyOnce ==
    pc \in {"done", "aborted"}
      => /\ Len(summaries) = 1
         /\ Len(saved) = 1
         /\ DOMAIN summaries[1].statuses = Range(SourceNames)
         /\ \A n \in Range(SourceNames) : summaries[1].statuses[n] \in FinalStatuses
         /\ summaries[1].failed = DOMAIN raised

\* C5: whenever extract() raises, what it raises is an ExtractError.
C5_OnlyExtractError ==
    (eresult # None /\ ~eresult[1].ok) => eresult[1].cls = ExtractErrorCls

\* ---- C10 ----
IsEvent(kind, e) == e[1] = kind
Fetches == SelectSeq(elog, LAMBDA e : IsEvent("fetch", e))
Listings == SelectSeq(elog, LAMBDA e : IsEvent("list", e))

RECURSIVE Flatten(_)
Flatten(qs) == IF qs = <<>> THEN <<>> ELSE Head(qs) \o Flatten(Tail(qs))

\* The rows of the envelope the endpoint serves for usage point u.
RowsAt(u) ==
    [i \in 1..u |->
       [usage_point |-> Some([j \in 1..u |-> "42"]), reading_quality |-> None,
        duration |-> Some("900"), start |-> Some(i), value |-> Some(u),
        tou |-> None, unit |-> "kWh"]]

\* The urls named by the notifications listed so far, in listing order.
DiscoveredUrls ==
    Flatten([i \in DOMAIN Listings |->
               LET o == bucket[Listings[i][2]]
               IN  IF o.json /\ o.urls # None THEN o.urls[1] ELSE <<>>])

\* The urls named by all the notifications under the prefix.
AllUrls ==
    Flatten([k \in DOMAIN bucket |->
               IF ~bucket[k].is_dir /\ bucket[k].json /\ bucket[k].urls # None
               THEN bucket[k].urls[1] ELSE <<>>])

FetchedUrls == [i \in DOMAIN Fetches |-> Fetches[i][2]]
IsPrefix(p, q) == Len(p) <= Len(q) /\ SubSeq(q, 1, Len(p)) = p

\* C10: the token is requested exactly once and before any listing or fetch;
\* urls are fetched in discovery order; while a payload waits to be parsed the
\* staging file holds it and all earlier payloads are already in the rows;
\* and the table extract() returns holds, in fetch order, exactly the rows of
\* every payload of every url of every notification.
C10_RowsAreConcatenation ==
    /\ \A i \in DOMAIN elog : IsEvent("token", elog[i]) <=> i = 1
    /\ epc \notin {"idle", "token"} => elog # <<>>
    /\ IsPrefix(FetchedUrls, DiscoveredUrls)
    /\ epc = "parse"
         => /\ staging = Some(Fetches[Len(Fetches)][3])
            /\ data_list = Flatten([i \in 1..(Len(Fetches) - 1) |-> RowsAt(Fetches[i][2])])
    /\ (eresult # None /\ eresult[1].ok)
         => /\ FetchedUrls = AllUrls
            /\ eresult[1].value.rows = Flatten([i \in DOMAIN Fetches |-> RowsAt(Fetches[i][2])])
            /\ eresult[1].value.height = Len(eresult[1].value.rows)

C10_Witness ==
    /\ eresult # None
    /\ eresult[1].ok
    /\ FetchedUrls = <<2, 1, 1>>
    /\ Len(Listings) = 2
    /\ eresult[1].value.height = 4

\* ---- C8 ----
UpLinks(links) == SelectSeq(links, LAMBDA l : l.rel = "up")

\* The usage point an entry's links determine: the segment after the segment
\* "UsagePoint" of the "up" link's href, and None when there is none.
DerivedUsagePoint(links) ==
    IF UpLinks(links) = <<>> THEN None
    ELSE LET href == Head(UpLinks(links)).href IN
         IF href = None THEN None
         ELSE LET segs == Split(href[1]) IN
              IF \E i \in 1..(Len(segs) - 1) : segs[i] = <<"UsagePoint">>
              THEN Some(segs[(CHOOSE i \in 1..(Len(segs) - 1) :
                                 /\ segs[i] = <<"UsagePoint">>
                                 /\ \A j \in 1..(i - 1) : segs[j] # <<"UsagePoint">>) + 1])
              ELSE None

\* C8: extract_usage_point_id never raises; it returns the segment after
\* "UsagePoint" of the "up" link's href and, when no usage point can be derived
\* (no "up" link, or an href without "UsagePoint" or with nothing after it),
\* the undetermined value None.
C8_UsagePointOrUndetermined ==
    uresult # None
      => /\ uresult[1].ok
         /\ uresult[1].value = DerivedUsagePoint(uinput[1])

\* ---- C7 ----
\* The rows an entry stands for: none without content or IntervalBlock, else
\* one per IntervalReading of its interval-block, with the entry's usage point.
EntryRows(child) ==
    IF child.content = None THEN <<>>
    ELSE IF child.content[1] = <<>> THEN <<>>
    ELSE LET data == Head(child.content[1]) IN
         [i \in 1..Len(data) |->
            [usage_point |-> DerivedUsagePoint(child.links),
             reading_quality |-> data[i].quality, duration |-> data[i].duration,
             start |-> data[i].start, value |-> data[i].value, tou |-> data[i].tou,
             unit |-> "kWh"]]

\* C7: for a well-formed envelope parse_xml does not raise and returns, entry
\* by entry, one row per interval-reading (absent sub-elements as None, unit
\* 'kWh'); an entry without interval-block or without content gives no rows.
C7_RowsPerReading ==
    (presult # None /\ pinput[1].wellformed)
      => /\ presult[1].ok
         /\ presult[1].value =
              Flatten([i \in DOMAIN pinput[1].entries |-> EntryRows(pinput[1].entries[i])])

\* ---- C9 ----
Offending(cols, cfg) ==
    SelectSeq(cols, LAMBDA c : \A i \in DOMAIN cfg.schema : cfg.schema[i].db_field # c)

\* C9: validate returns no error exactly when every prim_key and update_cols
\* entry is some FieldMapping's db_field; otherwise one message per offending
\* entry naming it, primary-key messages first; and the config is unchanged.
C9_ValidateErrors ==
    vresult # None
      => LET cfg == vinput[1]
             errors == vresult[1].errors
             bad_pk == Offending(cfg.prim_key, cfg)
             bad_uc == Offending(cfg.update_cols, cfg)
         IN  /\ (errors = <<>>) <=>
                  \A c \in Range(cfg.prim_key) \cup Range(cfg.update_cols) :
                    \E i \in DOMAIN cfg.schema : cfg.schema[i].db_field = c
             /\ Len(errors) = Len(bad_pk) + Len(bad_uc)
             /\ \A i \in DOMAIN bad_pk :
                  errors[i] = [kind |-> "primary key col", col |-> bad_pk[i]]
             /\ \A i \in DOMAIN bad_uc :
                  errors[Len(bad_pk) + i] = [kind |-> "update col", col |-> bad_uc[i]]
             /\ vresult[1].cfg = cfg

C9_Witness ==
    /\ vresult # None
    /\ Len(vresult[1].errors) = 3
    /\ vresult[1].errors[1].kind = "primary key col"
    /\ vresult[1].errors[2].kind = "update col"
    /\ vresult[1].errors[3].col = "start"
    /\ Len(vinput[1].prim_key) = 2

\* ---- C6 ----
\* transform.py:24-28 succeeds on the table: it has a "start" column and every
\* cell of it is null or a number.
ConversionSucceeds(raw) ==
    /\ "start" \in Range(raw.columns)
    /\ \A r \in DOMAIN raw.rows :
         LET cell == raw.rows[r][ColIndex(raw, "start")]
         IN  cell = None \/ cell[1].numeric

\* The schema names every source field once and every target field once.
UniqueNames(cfg) ==
    /\ NoDuplicates([i \in DOMAIN cfg.schema |-> cfg.schema[i].json_field])
    /\ NoDuplicates([i \in DOMAIN cfg.schema |-> cfg.schema[i].db_field])

\* Some primary-key target column holds a missing value: some row of the
\* ingested table has no value in the source field mapped to it.
PkMissing(raw, cfg) ==
    \E k \in DOMAIN cfg.prim_key, i \in DOMAIN cfg.schema, r \in DOMAIN raw.rows :
      /\ cfg.schema[i].db_field = cfg.prim_key[k]
      /\ raw.rows[r][ColIndex(raw, cfg.schema[i].json_field)] = None

====
